---- MODULE Spec2Model ----
(***************************************************************************)
(* Model of src/app.py: the PDF -> page images + compressed PDF batch      *)
(* conversion (lines 65-149), its result store                             *)
(* st.session_state['conversion_results'], the filename sanitizer          *)
(* (lines 9-18) and the resize rule (lines 88-92 and 115-119).             *)
(*                                                                         *)
(* Strings are sequences of characters; a character is a one-character     *)
(* string, or an upper-case name for a character outside ASCII             *)
(* ("FW_COLON" is U+FF1A, "L_CORNER" U+300C, "R_CORNER" U+300D,            *)
(* "IDEO_SPACE" U+3000, "NBSP" U+00A0).                                    *)
(***************************************************************************)
EXTENDS Integers, Sequences, FiniteSets, TLC

(***************************************************************************)
(* Bounds of the model.                                                    *)
(***************************************************************************)
MaxDocs == 2
MaxPages == 2
MaxTail == 3

(***************************************************************************)
(* Program constants.                                                      *)
(***************************************************************************)
\* s[:100], line 18
MaxNameLen == 100
\* the select_slider option "no limit" (the string at line 53); the other
\* options are pixel counts, all positive
NoLimit == 0
\* width of the page index in an archive entry name, {i + 1:03}, line 128
IndexWidth == 3
\* an IEEE-754 double has 53 significant bits (Python float, lines 91, 118)
MantissaBits == 53

Max2(a, b) == IF a >= b THEN a ELSE b
Min2(a, b) == IF a <= b THEN a ELSE b

(***************************************************************************)
(* sanitize_filename, lines 9-18.                                          *)
(***************************************************************************)
\* the character class of line 14: [\\/:*?"<>|：「」]
ForbiddenChars ==
  {"\\", "/", ":", "*", "?", "\"", "<", ">", "|", "FW_COLON", "L_CORNER", "R_CORNER"}

\* characters \s matches in a str pattern (line 16); the Unicode spaces are
\* represented by two of them
WhitespaceChars == {" ", "\t", "\n", "\r", "\f", "NBSP", "IDEO_SPACE"}

\* line 14: re.sub(r'[\\/:*?"<>|：「」]', '_', filename)
ReplaceForbidden(s) ==
  [i \in 1..Len(s) |-> IF s[i] \in ForbiddenChars THEN "_" ELSE s[i]]

\* line 16: re.sub(r'\s+', '_', s): every maximal run of whitespace becomes
\* one underscore, so a whitespace character that continues a run is
\* dropped.  The string is worked through in halves.
RECURSIVE CollapseRange(_, _, _)
CollapseRange(s, lo, hi) ==
  IF lo > hi THEN <<>>
  ELSE IF lo = hi
       THEN IF s[lo] \in WhitespaceChars
            THEN IF lo > 1 /\ s[lo - 1] \in WhitespaceChars THEN <<>> ELSE <<"_">>
            ELSE <<s[lo]>>
       ELSE LET mid == (lo + hi) \div 2
            IN  CollapseRange(s, lo, mid) \o CollapseRange(s, mid + 1, hi)

CollapseWhitespace(s) == CollapseRange(s, 1, Len(s))

\* line 18 without the cut
TruncateNone(s) == s

\* line 18: s[:100]
Truncate(s) == SubSeq(s, 1, Min2(Len(s), MaxNameLen))

sanitize_filename(filename) ==
  Truncate(CollapseWhitespace(ReplaceForbidden(filename)))

(***************************************************************************)
(* os.path.splitext(name)[0], line 72 (posixpath: the last dot after the   *)
(* last "/", unless only dots precede it in the file name).                *)
(***************************************************************************)
LastIndexOf(s, c) ==
  LET hits == {i \in 1..Len(s) : s[i] = c}
  IN  IF hits = {} THEN 0 ELSE CHOOSE i \in hits : \A j \in hits : j <= i

splitext_root(p) ==
  LET sepIndex == LastIndexOf(p, "/")
      dotIndex == LastIndexOf(p, ".")
  IN  IF dotIndex > sepIndex /\ \E k \in (sepIndex + 1)..(dotIndex - 1) : p[k] # "."
      THEN SubSeq(p, 1, dotIndex - 1)
      ELSE p

(***************************************************************************)
(* Python float arithmetic of lines 91-92 and 118-119: IEEE-754 binary64,  *)
(* round to nearest, ties to even.  A positive double is a record          *)
(* [m |-> its 53 significant bits, most significant first, e |-> the       *)
(* exponent of the first bit].  Bit strings stand for the wide integers.   *)
(***************************************************************************)
\* wide integers are bit strings; arithmetic on them goes limb by limb, a
\* limb being LimbBits binary digits
LimbBits == 13
LimbBase == 2 ^ LimbBits

\* the binary digits of n, most significant first, in exactly k digits
BitsOfWidth(n, k) == [i \in 1..k |-> (n \div (2 ^ (k - i))) % 2]

\* the binary digits of n without leading zeros (<<>> for 0)
BitsOf(n) ==
  LET k == CHOOSE j \in 0..30 : n < 2 ^ j /\ (j = 0 \/ n >= 2 ^ (j - 1))
  IN  BitsOfWidth(n, k)

\* the number a short bit string stands for
RECURSIVE NatOf(_)
NatOf(bits) ==
  IF bits = <<>> THEN 0 ELSE 2 * NatOf(SubSeq(bits, 1, Len(bits) - 1)) + bits[Len(bits)]

\* the first k limbs of binary digits of rem / d after the point (rem < d),
\* and what is left of the division
RECURSIVE FracBits(_, _, _, _)
FracBits(rem, d, k, acc) ==
  IF k = 0 THEN [bits |-> acc, rem |-> rem]
  ELSE FracBits((rem * LimbBase) % d, d, k - 1,
                acc \o BitsOfWidth((rem * LimbBase) \div d, LimbBits))

\* bits + 1; a string of ones overflows into one more digit
IncBits(bits) ==
  LET zeros == {i \in 1..Len(bits) : bits[i] = 0}
  IN  IF zeros = {} THEN <<1>> \o [i \in 1..Len(bits) |-> 0]
      ELSE LET j == CHOOSE i \in zeros : \A k \in zeros : k <= i
           IN  [i \in 1..Len(bits) |-> IF i < j THEN bits[i] ELSE IF i = j THEN 1 ELSE 0]

\* The double nearest to the positive number whose binary digits are
\* `stream`, the first digit weighing 2^top; `inexact` says that nonzero
\* digits follow the stream.
RoundToDouble(stream, top, inexact) ==
  LET p      == CHOOSE i \in 1..Len(stream) :
                  stream[i] = 1 /\ \A j \in 1..(i - 1) : stream[j] = 0
      digit(i) == IF i <= Len(stream) THEN stream[i] ELSE 0
      m      == [i \in 1..MantissaBits |-> digit(p + i - 1)]
      round  == digit(p + MantissaBits)
      sticky == inexact \/ \E i \in (p + MantissaBits + 1)..Len(stream) : stream[i] = 1
      up     == round = 1 /\ (sticky \/ m[MantissaBits] = 1)
      inc    == IncBits(m)
  IN  IF ~up THEN [m |-> m, e |-> top - (p - 1)]
      ELSE IF Len(inc) > MantissaBits
           THEN [m |-> SubSeq(inc, 1, MantissaBits), e |-> top - (p - 1) + 1]
           ELSE [m |-> inc, e |-> top - (p - 1)]

\* a / b for positive ints a, b (true division, correctly rounded)
TrueDiv(a, b) ==
  LET whole == BitsOf(a \div b)
      limbs == ((Len(BitsOf(b)) + MantissaBits + 2) \div LimbBits) + 1
      frac  == FracBits(a % b, b, limbs, <<>>)
  IN  RoundToDouble(whole \o frac.bits, Len(whole) - 1, frac.rem # 0)

\* the digits of bits * n + carry, Len(bits) a multiple of LimbBits
RECURSIVE MulLimbs(_, _, _, _)
MulLimbs(bits, n, carry, acc) ==
  IF bits = <<>> THEN BitsOf(carry) \o acc
  ELSE LET cut == Len(bits) - LimbBits
           v   == NatOf(SubSeq(bits, cut + 1, Len(bits))) * n + carry
       IN  MulLimbs(SubSeq(bits, 1, cut), n, v \div LimbBase,
                    BitsOfWidth(v % LimbBase, LimbBits) \o acc)

\* the digits of bits * n
MulBits(bits, n) ==
  LET pad == (LimbBits - (Len(bits) % LimbBits)) % LimbBits
  IN  MulLimbs([i \in 1..pad |-> 0] \o bits, n, 0, <<>>)

\* n * f for a positive int n and a double f: float(n) is exact, the exact
\* product is rounded once
MulIntFloat(n, f) ==
  LET prod == MulBits(f.m, n)
  IN  RoundToDouble(prod, f.e - (MantissaBits - 1) + Len(prod) - 1, FALSE)

\* int(f): truncation toward zero
IntOfFloat(f) == IF f.e < 0 THEN 0 ELSE NatOf(SubSeq(f.m, 1, f.e + 1))

(***************************************************************************)
(* The resize rule.  A size is <<width, height>>.                          *)
(***************************************************************************)
\* lines 91-92 / 118-119: ratio = max_dim / max(w, h);
\* (int(w * ratio), int(h * ratio))
ScaledSize(size, max_dim) ==
  LET ratio == TrueDiv(max_dim, Max2(size[1], size[2]))
  IN  <<IntOfFloat(MulIntFloat(size[1], ratio)), IntOfFloat(MulIntFloat(size[2], ratio))>>

\* lines 88-92 without the test of line 90: every page is scaled
ResizeForPdfAlways(size, max_dim) ==
  IF max_dim # NoLimit THEN ScaledSize(size, max_dim) ELSE size

\* lines 88-92: the resize of one page on the way into the compressed PDF
ResizeForPdf(size, max_dim) ==
  IF max_dim # NoLimit /\ Max2(size[1], size[2]) > max_dim
  THEN ScaledSize(size, max_dim)
  ELSE size

\* lines 115-119 without the test of line 117: every page is scaled
ResizeForArchiveAlways(size, max_dim) ==
  IF max_dim # NoLimit THEN ScaledSize(size, max_dim) ELSE size

\* lines 115-119 left out: the archive gets the page as rasterized
ResizeForArchiveNone(size, max_dim) == size

\* lines 115-119: the resize of one page on the way into the archive
ResizeForArchive(size, max_dim) ==
  IF max_dim # NoLimit /\ Max2(size[1], size[2]) > max_dim
  THEN ScaledSize(size, max_dim)
  ELSE size

(***************************************************************************)
(* Names of the artifacts.                                                 *)
(***************************************************************************)
DigitChar(d) == <<"0", "1", "2", "3", "4", "5", "6", "7", "8", "9">>[d + 1]

RECURSIVE Digits(_)
Digits(n) == IF n < 10 THEN <<DigitChar(n)>> ELSE Append(Digits(n \div 10), DigitChar(n % 10))

\* the format spec 03 of line 128: decimal, zero-filled to at least 3 digits
FormatIndex(n) ==
  LET d == Digits(n)
  IN  [i \in 1..(IndexWidth - Len(d)) |-> "0"] \o d

\* line 107
ExtOf(fmt) == IF fmt = "WebP" THEN <<"w", "e", "b", "p">> ELSE <<"j", "p", "g">>
\* line 108
PilFormatOf(fmt) == IF fmt = "WebP" THEN "WEBP" ELSE "JPEG"

\* line 112: f"{base_file_name}_compressed.pdf"
ZipPdfEntryName(base_file_name) ==
  base_file_name \o <<"_", "c", "o", "m", "p", "r", "e", "s", "s", "e", "d", ".", "p", "d", "f">>

\* line 128 with {i:03}: pages numbered from 0
ZipPageEntryNameFromZero(base_file_name, i, ext) ==
  sanitize_filename(base_file_name) \o <<"_", "p", "_">> \o FormatIndex(i) \o <<".">> \o ext

\* lines 127-128: f"{sanitized_base_name}_p_{i + 1:03}.{ext}", i counted from 0
ZipPageEntryName(base_file_name, i, ext) ==
  sanitize_filename(base_file_name) \o <<"_", "p", "_">> \o FormatIndex(i + 1) \o <<".">> \o ext

\* line 172: f"{res['base_file_name']}_bundle.zip"
DownloadZipName(res) ==
  res.base_file_name \o <<"_", "b", "u", "n", "d", "l", "e", ".", "z", "i", "p">>

\* line 181: f"{res['base_file_name']}_compressed.pdf"
DownloadPdfName(res) ==
  res.base_file_name \o <<"_", "c", "o", "m", "p", "r", "e", "s", "s", "e", "d", ".", "p", "d", "f">>

(***************************************************************************)
(* Inputs of the model.                                                    *)
(***************************************************************************)
\* uploaded file names: "a b.pdf" and "c.pdf"
FileNames == {<<"a", " ", "b", ".", "p", "d", "f">>, <<"c", ".", "p", "d", "f">>}

\* what convert_from_bytes returns for a document of n pages (line 79): odd
\* pages are 2000x3000, even pages 1122x561
PageSizeAt(i) == IF i % 2 = 1 THEN <<2000, 3000>> ELSE <<1122, 561>>
PagesOf(n) == [i \in 1..n |-> PageSizeAt(i)]

UploadedFile == [name : FileNames, pages : {PagesOf(n) : n \in 0..MaxPages}]

\* the file uploader's value when the button is pressed (lines 37, 65)
Batches == UNION {[1..n -> UploadedFile] : n \in 1..MaxDocs}

\* lines 43-48
FormatOptions == {"JPG", "WebP"}
\* the options of line 53
MaxDimOptions == {1024, 1280, 1920, 2560, 3840, NoLimit}
\* the options a batch run of the model is started with
BatchMaxDims == {1024, NoLimit}

(***************************************************************************)
(* State.                                                                  *)
(***************************************************************************)
VARIABLES
  uploaded_files,        \* line 37: sequence of [name, pages]
  format_option,         \* line 43
  max_dim,               \* line 51
  conversion_results,    \* st.session_state['conversion_results']: name -> record
  pc,                    \* where the script is
  idx,                   \* position of the loop of line 70 (1-based)
  images,                \* line 79
  processed_pdf_images,  \* line 86
  compressed_pdf_bytes,  \* line 103: the pages embedded in the PDF
  zip_entries,           \* what has been written to zip_buffer (lines 110-128)
  statuses,              \* the st.status widgets of line 74, one per file begun
  errors,                \* the st.error messages of line 149 (file names)
  s_in, s_out, s_again, s_pc,            \* a sanitize_filename call and a second one on its result
  r_in, r_max, r_out, r_again, r_pc      \* a resize of one size and a second one of its result

batchVars == <<uploaded_files, format_option, max_dim, conversion_results, pc, idx,
               images, processed_pdf_images, compressed_pdf_bytes, zip_entries,
               statuses, errors>>
sanitizeVars == <<s_in, s_out, s_again, s_pc>>
resizeVars == <<r_in, r_max, r_out, r_again, r_pc>>
vars == <<batchVars, sanitizeVars, resizeVars>>

\* the script before any run: nothing uploaded, the widgets at their
\* defaults (index=1 is "WebP", value=1920), the store empty (lines 62-63)
BatchInit ==
  /\ uploaded_files = <<>>
  /\ format_option = "WebP"
  /\ max_dim = 1920
  /\ conversion_results = <<>>
  /\ pc = "idle"
  /\ idx = 0
  /\ images = <<>>
  /\ processed_pdf_images = <<>>
  /\ compressed_pdf_bytes = <<>>
  /\ zip_entries = <<>>
  /\ statuses = <<>>
  /\ errors = <<>>

SanitizeIdle == s_in = <<>> /\ s_out = <<>> /\ s_again = <<>> /\ s_pc = "off"
ResizeIdle == r_in = <<1, 1>> /\ r_max = NoLimit /\ r_out = <<1, 1>> /\ r_again = <<1, 1>> /\ r_pc = "off"

\* the user sets the sidebar widgets (lines 43-56) before the first run and
\* leaves them alone afterwards
BatchIdle ==
  /\ uploaded_files = <<>>
  /\ format_option \in FormatOptions
  /\ max_dim \in BatchMaxDims
  /\ conversion_results = <<>>
  /\ pc = "idle"
  /\ idx = 0
  /\ images = <<>>
  /\ processed_pdf_images = <<>>
  /\ compressed_pdf_bytes = <<>>
  /\ zip_entries = <<>>
  /\ statuses = <<>>
  /\ errors = <<>>

Init == BatchIdle /\ SanitizeIdle /\ ResizeIdle

CurrentFile == uploaded_files[idx]
\* line 72
base_file_name == splitext_root(CurrentFile.name)

\* the dict assignment d[k] = v
DictSet(d, k, v) == [n \in (DOMAIN d) \cup {k} |-> IF n = k THEN v ELSE d[n]]

\* seq[0] that yields a blank element for an empty list
Index0Lenient(seq) ==
  [raises |-> FALSE, value |-> IF Len(seq) < 1 THEN <<0, 0>> ELSE seq[1]]

\* seq[0]: the element, or IndexError
Index0(seq) ==
  [raises |-> Len(seq) < 1, value |-> IF Len(seq) < 1 THEN <<0, 0>> ELSE seq[1]]

(***************************************************************************)
(* The button handler, lines 66-149, one step at a time.                   *)
(***************************************************************************)
\* the loop of line 70 moves on to the next file, or ends
NextFile ==
  /\ idx' = idx + 1
  /\ pc' = IF idx + 1 > Len(uploaded_files) THEN "idle" ELSE "begin"

\* lines 65-68: the button is pressed with a non-empty upload; the old
\* results are cleared before the loop starts
Start ==
  /\ pc = "idle"
  /\ uploaded_files' \in Batches
  /\ conversion_results' = <<>>
  /\ idx' = 1
  /\ pc' = "begin"
  /\ statuses' = <<>>
  /\ errors' = <<>>
  /\ UNCHANGED <<format_option, max_dim>>
  /\ UNCHANGED <<images, processed_pdf_images, compressed_pdf_bytes, zip_entries>>
  /\ UNCHANGED <<sanitizeVars, resizeVars>>

\* lines 70-75: the next file's status widget opens.  images,
\* processed_pdf_images, compressed_pdf_bytes and zip_buffer are each bound
\* anew (lines 79, 86, 103, 106) before the try block reads them, so what
\* the previous file left in them is dropped here.
BeginFile ==
  /\ pc = "begin"
  /\ statuses' = Append(statuses, "running")
  /\ images' = <<>>
  /\ processed_pdf_images' = <<>>
  /\ compressed_pdf_bytes' = <<>>
  /\ zip_entries' = <<>>
  /\ pc' = "rasterize"
  /\ UNCHANGED <<uploaded_files, format_option, max_dim, conversion_results, idx, errors>>
  /\ UNCHANGED <<sanitizeVars, resizeVars>>

\* lines 148-149 with the try around the loop instead of inside it: the
\* first exception ends the run
ExceptHandlerAbort ==
  /\ errors' = Append(errors, CurrentFile.name)
  /\ idx' = Len(uploaded_files) + 1
  /\ pc' = "idle"
  /\ UNCHANGED <<uploaded_files, format_option, max_dim, conversion_results, statuses>>
  /\ UNCHANGED <<sanitizeVars, resizeVars>>

\* lines 148-149 with the record stored from whatever the try block had
\* built when it raised
ExceptHandlerKeepsPartial ==
  /\ errors' = Append(errors, CurrentFile.name)
  /\ conversion_results' = DictSet(conversion_results, CurrentFile.name,
       [final_zip_bytes      |-> zip_entries,
        compressed_pdf_bytes |-> compressed_pdf_bytes,
        base_file_name       |-> sanitize_filename(base_file_name),
        num_pages            |-> Len(images),
        width                |-> 0,
        height               |-> 0,
        format_option        |-> format_option])
  /\ NextFile
  /\ UNCHANGED <<uploaded_files, format_option, max_dim, statuses>>
  /\ UNCHANGED <<sanitizeVars, resizeVars>>

\* lines 148-149: the exception is caught inside the loop body, reported
\* with the file's name, and the loop goes on
ExceptHandler ==
  /\ errors' = Append(errors, CurrentFile.name)
  /\ NextFile
  /\ UNCHANGED <<uploaded_files, format_option, max_dim, conversion_results, statuses>>
  /\ UNCHANGED <<sanitizeVars, resizeVars>>

\* lines 79-83: convert_from_bytes returns the pages, or raises
Rasterize ==
  /\ pc = "rasterize"
  /\ \/ /\ images' = CurrentFile.pages
        /\ pc' = "resize"
        /\ UNCHANGED <<uploaded_files, format_option, max_dim, conversion_results, idx,
                       statuses, errors, sanitizeVars, resizeVars>>
     \/ /\ ExceptHandler
        /\ UNCHANGED images
  /\ UNCHANGED <<processed_pdf_images, compressed_pdf_bytes, zip_entries>>

\* lines 86-93: every page resized and converted to RGB, or a raise
ResizePages ==
  /\ pc = "resize"
  /\ \/ /\ processed_pdf_images' =
             [i \in 1..Len(images) |-> ResizeForPdf(images[i], max_dim)]
        /\ pc' = "save_pdf"
        /\ UNCHANGED <<uploaded_files, format_option, max_dim, conversion_results, idx,
                       statuses, errors, sanitizeVars, resizeVars>>
     \/ /\ ExceptHandler
        /\ UNCHANGED processed_pdf_images
  /\ UNCHANGED <<images, compressed_pdf_bytes, zip_entries>>

\* lines 95-103: processed_pdf_images[0].save(...) raises IndexError on an
\* empty list; the save itself may raise
SavePdf ==
  /\ pc = "save_pdf"
  /\ \/ /\ ~Index0(processed_pdf_images).raises
        /\ compressed_pdf_bytes' = processed_pdf_images
        /\ pc' = "zip_pdf"
        /\ UNCHANGED <<uploaded_files, format_option, max_dim, conversion_results, idx,
                       statuses, errors, sanitizeVars, resizeVars>>
     \/ /\ ExceptHandler
        /\ UNCHANGED compressed_pdf_bytes
  /\ UNCHANGED <<images, processed_pdf_images, zip_entries>>

\* lines 106-112: the archive is opened and the PDF written as its first entry
ZipWritePdf ==
  /\ pc = "zip_pdf"
  /\ \/ /\ zip_entries' = <<[name |-> ZipPdfEntryName(base_file_name), kind |-> "PDF",
                             page |-> 0, pages |-> compressed_pdf_bytes]>>
        /\ pc' = IF Len(images) = 0 THEN "store" ELSE "zip_page"
        /\ UNCHANGED <<uploaded_files, format_option, max_dim, conversion_results, idx,
                       statuses, errors, sanitizeVars, resizeVars>>
     \/ /\ ExceptHandler
        /\ UNCHANGED zip_entries
  /\ UNCHANGED <<images, processed_pdf_images, compressed_pdf_bytes>>

\* lines 114-128, one turn of the loop: page i (counted from 0) is resized,
\* encoded and written
ZipWritePage ==
  /\ pc = "zip_page"
  /\ LET i == Len(zip_entries) - 1
     IN  \/ /\ zip_entries' = Append(zip_entries,
                  [name |-> ZipPageEntryName(base_file_name, i, ExtOf(format_option)),
                   kind |-> PilFormatOf(format_option),
                   page |-> i + 1,
                   pages |-> <<ResizeForArchive(images[i + 1], max_dim)>>])
            /\ pc' = IF i + 1 = Len(images) THEN "store" ELSE "zip_page"
            /\ UNCHANGED <<uploaded_files, format_option, max_dim, conversion_results, idx,
                           statuses, errors, sanitizeVars, resizeVars>>
         \/ /\ ExceptHandler
            /\ UNCHANGED zip_entries
  /\ UNCHANGED <<images, processed_pdf_images, compressed_pdf_bytes>>

\* lines 130-146: the record is stored under the uploaded file's name and
\* the status widget is marked complete
Store ==
  /\ pc = "store"
  /\ \/ /\ ~Index0(processed_pdf_images).raises
        /\ conversion_results' = DictSet(conversion_results, CurrentFile.name,
             [final_zip_bytes      |-> zip_entries,
              compressed_pdf_bytes |-> compressed_pdf_bytes,
              base_file_name       |-> sanitize_filename(base_file_name),
              num_pages            |-> Len(images),
              width                |-> Index0(processed_pdf_images).value[1],
              height               |-> Index0(processed_pdf_images).value[2],
              format_option        |-> format_option])
        /\ statuses' = [statuses EXCEPT ![idx] = "complete"]
        /\ NextFile
        /\ UNCHANGED <<uploaded_files, format_option, max_dim, errors,
                       sanitizeVars, resizeVars>>
     \/ /\ Index0(processed_pdf_images).raises
        /\ ExceptHandler
  /\ UNCHANGED <<images, processed_pdf_images, compressed_pdf_bytes, zip_entries>>

Next ==
  \/ Start
  \/ BeginFile
  \/ Rasterize
  \/ ResizePages
  \/ SavePdf
  \/ ZipWritePdf
  \/ ZipWritePage
  \/ Store

Spec == Init /\ [][Next]_vars

(***************************************************************************)
(* sanitize_filename on its own: a name is sanitized, then the result is   *)
(* sanitized again.                                                        *)
(***************************************************************************)
SanitizeAlphabet == {"a", "_", "/", "FW_COLON", " ", "\t"}

TailStrings == UNION {[1..n -> SanitizeAlphabet] : n \in 0..MaxTail}

\* short names, and names around the length limit of line 18
SanitizeInputs ==
  {[i \in 1..k |-> "b"] \o t : k \in {0, MaxNameLen - 2}, t \in TailStrings}

InitSanitize ==
  /\ BatchInit /\ ResizeIdle
  /\ s_in \in SanitizeInputs
  /\ s_out = <<>>
  /\ s_again = <<>>
  /\ s_pc = "input"

SanitizeOnce ==
  /\ s_pc = "input"
  /\ s_out' = sanitize_filename(s_in)
  /\ s_pc' = "once"
  /\ UNCHANGED <<s_in, s_again, batchVars, resizeVars>>

SanitizeAgain ==
  /\ s_pc = "once"
  /\ s_again' = sanitize_filename(s_out)
  /\ s_pc' = "twice"
  /\ UNCHANGED <<s_in, s_out, batchVars, resizeVars>>

NextSanitize == SanitizeOnce \/ SanitizeAgain

SpecSanitize == InitSanitize /\ [][NextSanitize]_vars

(***************************************************************************)
(* The resize rule on its own: a size is resized at one of the two call    *)
(* sites, then the result is resized again at the same site.               *)
(***************************************************************************)
SideLengths ==
  {1, 2, 511, 561, 1023, 1024, 1025, 1122, 1280, 1429, 1920, 1921, 2000, 3000, 3841, 7680}

InitResize ==
  /\ BatchInit /\ SanitizeIdle
  /\ r_in \in SideLengths \X SideLengths
  /\ r_max \in MaxDimOptions
  /\ r_out = r_in
  /\ r_again = r_in
  /\ r_pc = "input"

ResizePdfOnce ==
  /\ r_pc = "input"
  /\ r_out' = ResizeForPdf(r_in, r_max)
  /\ r_pc' = "pdf_once"
  /\ UNCHANGED <<r_in, r_max, r_again, batchVars, sanitizeVars>>

ResizePdfAgain ==
  /\ r_pc = "pdf_once"
  /\ r_again' = ResizeForPdf(r_out, r_max)
  /\ r_pc' = "pdf_twice"
  /\ UNCHANGED <<r_in, r_max, r_out, batchVars, sanitizeVars>>

ResizeArchiveOnce ==
  /\ r_pc = "input"
  /\ r_out' = ResizeForArchive(r_in, r_max)
  /\ r_pc' = "zip_once"
  /\ UNCHANGED <<r_in, r_max, r_again, batchVars, sanitizeVars>>

ResizeArchiveAgain ==
  /\ r_pc = "zip_once"
  /\ r_again' = ResizeForArchive(r_out, r_max)
  /\ r_pc' = "zip_twice"
  /\ UNCHANGED <<r_in, r_max, r_out, batchVars, sanitizeVars>>

NextResize == ResizePdfOnce \/ ResizePdfAgain \/ ResizeArchiveOnce \/ ResizeArchiveAgain

SpecResize == InitResize /\ [][NextResize]_vars

(***************************************************************************)
(* Properties.                                                             *)
(***************************************************************************)
Records == {conversion_results[n] : n \in DOMAIN conversion_results}
Completed == {i \in 1..Len(statuses) : statuses[i] = "complete"}
RunOver == pc = "idle" /\ uploaded_files # <<>>
CleanName(name) ==
  \A k \in 1..Len(name) : name[k] \notin ForbiddenChars /\ name[k] \notin WhitespaceChars

\* C1: a failure while converting one document does not abort the batch.
\* When a run is over, every uploaded document was begun, each one either
\* completed or was reported as an error, and the name of every document
\* that completed has a record in the store.
C1_FailureDoesNotAbortBatch ==
  RunOver =>
    /\ Len(statuses) = Len(uploaded_files)
    /\ Cardinality(Completed) + Len(errors) = Len(uploaded_files)
    /\ \A i \in Completed : uploaded_files[i].name \in DOMAIN conversion_results

\* a run in which the first document failed and the second one completed
C1_Witness ==
  /\ RunOver
  /\ Len(uploaded_files) = 2
  /\ statuses = <<"running", "complete">>
  /\ errors = <<uploaded_files[1].name>>
  /\ uploaded_files[2].name \in DOMAIN conversion_results

\* a record that lacks nothing: the archive holds the PDF and one image per
\* page, the PDF holds every page, and the metrics are those of the first page
RecordComplete(r) ==
  /\ DOMAIN r = {"final_zip_bytes", "compressed_pdf_bytes", "base_file_name",
                 "num_pages", "width", "height", "format_option"}
  /\ Len(r.final_zip_bytes) = r.num_pages + 1
  /\ r.final_zip_bytes[1].kind = "PDF"
  /\ r.final_zip_bytes[1].pages = r.compressed_pdf_bytes
  /\ Len(r.compressed_pdf_bytes) = r.num_pages
  /\ r.compressed_pdf_bytes # <<>>
  /\ <<r.width, r.height>> = r.compressed_pdf_bytes[1]

\* C2: no partial artifacts on failure.  Every step leaves only complete
\* records in the store, and a step that reports an error leaves the store
\* as it was.
C2_NoPartialArtifacts ==
  [][/\ \A n \in DOMAIN conversion_results' : RecordComplete(conversion_results'[n])
     /\ errors' # errors /\ errors' # <<>> => conversion_results' = conversion_results]_vars

\* a document failed after its PDF was built and archive entries were written
\* (what it wrote is still in zip_entries), and its name has no record
C2_Witness ==
  /\ pc \in {"begin", "idle"}
  /\ idx > 1
  /\ statuses[idx - 1] = "running"
  /\ errors # <<>>
  /\ Len(zip_entries) >= 2
  /\ compressed_pdf_bytes # <<>>
  /\ uploaded_files[idx - 1].name \notin DOMAIN conversion_results

\* C3: every artifact name of a document uses the same sanitized base name:
\* the PDF entry and the page entries of the archive, and the two download
\* names; none of them holds a forbidden character or whitespace.
C3_SameSanitizedBaseEverywhere ==
  \A r \in Records :
    /\ r.final_zip_bytes[1].name =
         r.base_file_name \o <<"_", "c", "o", "m", "p", "r", "e", "s", "s", "e", "d", ".", "p", "d", "f">>
    /\ \A k \in 1..Len(r.final_zip_bytes) : CleanName(r.final_zip_bytes[k].name)
    /\ \A k \in 2..Len(r.final_zip_bytes) :
         SubSeq(r.final_zip_bytes[k].name, 1, Len(r.base_file_name)) = r.base_file_name
    /\ CleanName(DownloadZipName(r))
    /\ CleanName(DownloadPdfName(r))

\* C4: in every record, page i of the compressed PDF and the i-th page image
\* of the archive have the same width and height.
C4_PdfAndArchiveAgreeOnSize ==
  \A r \in Records :
    \A i \in 1..r.num_pages :
      /\ i <= Len(r.compressed_pdf_bytes)
      /\ i + 1 <= Len(r.final_zip_bytes)
      /\ r.final_zip_bytes[i + 1].pages = <<r.compressed_pdf_bytes[i]>>

\* a record of two pages, both scaled down to the limit of 1024
C4_Witness ==
  \E r \in Records :
    /\ r.num_pages >= 2
    /\ max_dim = 1024
    /\ r.compressed_pdf_bytes = <<<<682, 1024>>, <<1023, 511>>>>
    /\ r.final_zip_bytes[2].pages = <<<<682, 1024>>>>
    /\ r.final_zip_bytes[3].pages = <<<<1023, 511>>>>

ResizedOnce == r_pc \in {"pdf_once", "zip_once", "pdf_twice", "zip_twice"}
ResizedTwice == r_pc \in {"pdf_twice", "zip_twice"}
LongSide(size) == Max2(size[1], size[2])

\* C5: with a limit set the resized long side is at most the limit; a size
\* within the limit comes back unchanged; with no limit the size comes back
\* unchanged; a scaled side is never above width * limit / long side and
\* never larger than it was; 2000x3000 under 1920 becomes 1280x1920.
C5_ResizeWithinLimit ==
  ResizedOnce =>
    /\ r_max # NoLimit => LongSide(r_out) <= r_max
    /\ r_max # NoLimit /\ LongSide(r_in) <= r_max => r_out = r_in
    /\ r_max = NoLimit => r_out = r_in
    /\ r_max # NoLimit /\ LongSide(r_in) > r_max =>
         \A k \in 1..2 :
           /\ r_out[k] * LongSide(r_in) <= r_in[k] * r_max
           /\ (r_out[k] + 2) * LongSide(r_in) > r_in[k] * r_max
    /\ r_in = <<2000, 3000>> /\ r_max = 1920 => r_out = <<1280, 1920>>

\* the page of the claim's example, scaled at the PDF call site
C5_Witness ==
  /\ r_pc = "pdf_once"
  /\ r_in = <<2000, 3000>>
  /\ r_max = 1920
  /\ r_out = <<1280, 1920>>

\* C6: resizing an already resized size with the same limit changes nothing.
C6_ResizeIdempotent == ResizedTwice => r_again = r_out

\* a size that the first resize scaled down to just under the limit
C6_Witness ==
  /\ r_pc = "zip_twice"
  /\ r_in = <<1122, 561>>
  /\ r_max = 1024
  /\ r_out = <<1023, 511>>
  /\ r_again = r_out

\* C7: every record has at least one page and an archive with at least one
\* page image; a document that rasterizes to no page never completes, and
\* once the loop has passed it, it has been reported as an error.
C7_ZeroPagesIsAnError ==
  /\ \A r \in Records : r.num_pages >= 1 /\ Len(r.final_zip_bytes) >= 2
  /\ \A i \in Completed : uploaded_files[i].pages # <<>>
  /\ \A i \in 1..Len(uploaded_files) :
       i < idx /\ uploaded_files[i].pages = <<>> =>
         \E k \in 1..Len(errors) : errors[k] = uploaded_files[i].name

\* a run over a batch whose only document has no page: an error and no record
C7_Witness ==
  /\ RunOver
  /\ Len(uploaded_files) = 1
  /\ uploaded_files[1].pages = <<>>
  /\ errors = <<uploaded_files[1].name>>
  /\ statuses = <<"running">>
  /\ conversion_results = <<>>

ThreeDigits(i) ==
  <<DigitChar(i \div 100), DigitChar((i \div 10) % 10), DigitChar(i % 10)>>

\* C8: the archive of a record of n pages has n + 1 entries, the PDF first,
\* then the image of page i at position i + 1, named with i as three digits
\* and the extension of the chosen format; all names of an archive differ;
\* the index format of the entry names gives three digits up to page 999.
C8_ArchiveEntries ==
  \A r \in Records :
    /\ Len(r.final_zip_bytes) = r.num_pages + 1
    /\ r.final_zip_bytes[1].kind = "PDF"
    /\ \A i \in 1..r.num_pages :
         LET e == r.final_zip_bytes[i + 1]
         IN  /\ e.page = i
             /\ e.kind = (IF r.format_option = "JPG" THEN "JPEG" ELSE "WEBP")
             /\ e.name = r.base_file_name \o <<"_", "p", "_">> \o ThreeDigits(i) \o
                  (IF r.format_option = "JPG" THEN <<".", "j", "p", "g">>
                                              ELSE <<".", "w", "e", "b", "p">>)
    /\ \A j, k \in 1..Len(r.final_zip_bytes) :
         j # k => r.final_zip_bytes[j].name # r.final_zip_bytes[k].name
    /\ \A i \in {1, 9, 10, 42, 99, 100, 999} : FormatIndex(i) = ThreeDigits(i)

\* a JPG record of at least two pages
C8_Witness ==
  \E r \in Records :
    /\ r.format_option = "JPG"
    /\ r.num_pages >= 2
    /\ Len(r.final_zip_bytes) = r.num_pages + 1
    /\ r.final_zip_bytes[3].name = <<"a", "_", "b", "_", "p", "_", "0", "0", "2", ".", "j", "p", "g">>

\* C9: the output of sanitize_filename holds no forbidden character and no
\* whitespace and at most 100 characters, and sanitizing it again returns it.
C9_SanitizeIdempotent ==
  /\ s_pc \in {"once", "twice"} => CleanName(s_out) /\ Len(s_out) <= 100
  /\ s_pc = "twice" => s_again = s_out

\* a name over 100 characters with a forbidden character and whitespace in it
C9_Witness ==
  /\ s_pc = "twice"
  /\ Len(s_in) > 100
  /\ \E k \in 1..Len(s_in) : s_in[k] \in ForbiddenChars
  /\ \E k \in 1..Len(s_in) : s_in[k] \in WhitespaceChars
  /\ Len(s_out) = 100
  /\ s_again = s_out

\* C10: when a run is over, the store holds exactly one record for each
\* document of the run that converted successfully, and nothing else.
C10_OneRecordPerSuccessfulDocument ==
  RunOver => Cardinality(DOMAIN conversion_results) = Cardinality(Completed)
====
